---- MODULE Spec2Model ----
(***************************************************************************)
(* Model of monthly_tenders_report.py: main() walks the prefix folders in  *)
(* sorted order, process_prefix() locates data/jnl.dbf and data/str.dbf,   *)
(* import_jnl_to_sqlite() copies the journal into the jnl_data table of a  *)
(* per-prefix temporary SQLite file, generate_report_rows() runs the       *)
(* 941/950/980 self-join query, and main() writes the combined CSV.        *)
(*                                                                         *)
(* Text values are modelled by the text the code holds; amounts are the    *)
(* numbers CAST(... AS REAL) yields for those texts.  What the code reads  *)
(* from the file system (directory listings, DBF records, failures of the  *)
(* guarded calls) is drawn with \E at the step that reads it.  A call can  *)
(* fail where the code has a handler for its failure (the try blocks and   *)
(* the None / isfile tests); a call the code does not guard succeeds.      *)
(***************************************************************************)
EXTENDS Integers, Sequences, FiniteSets, TLC

(* ------------------------------ bounds -------------------------------- *)

\* Records the journals of one run yield in total, in units: a 941/950/980
\* triple is one unit, a 941/950 pair that no 980 follows is one unit, every
\* other record is one unit.
MaxUnits == 3

\* Longest journal whose every reordering is enumerated.
MaxPermLen == 4

(* --------------------------- input domains ---------------------------- *)

\* Names of the folders under extracted_root.
Prefixes == {"10", "9"}

\* sys.argv[2]: absent, or the one prefix to process.
NoArg == "<no argv[2]>"

ArgvInputs == {NoArg, "9"}

\* str(record.get(F, "")) of the journal records the DBF reader yields.
Rec(line, price, date, descript) ==
    [LINE |-> line, PRICE |-> price, DATE |-> date, DESCRIPT |-> descript]

Records ==
    { Rec("941", "-2",   "2024-01-05", ""),
      Rec("950", "10",   "2024-01-05", ""),
      Rec("950", "-5",   "2024-01-06", ""),
      Rec("980", "0",    "2024-01-05", "Visa"),
      Rec("980", "0",    "2024-01-05", "MC"),
      Rec("100", "None", "2024-01-05", "") }

\* The jnl_data table a temporary database left by an earlier run holds.
LeftoverTables ==
    { << [row_num |-> 1, LINE |-> "941", PRICE |-> "-2",
          DATE |-> "2024-01-05", DESCRIPT |-> ""],
         [row_num |-> 2, LINE |-> "950", PRICE |-> "10",
          DATE |-> "2024-01-05", DESCRIPT |-> ""],
         [row_num |-> 3, LINE |-> "980", PRICE |-> "0",
          DATE |-> "2024-01-05", DESCRIPT |-> "Visa"] >> }

\* What str.dbf can be: not in the folder, not a regular file, not readable
\* as DBF, or a table whose records carry these NAME values.
StrDbfInputs ==
    { [found |-> FALSE, isfile |-> FALSE, readable |-> FALSE, names |-> <<>>],
      [found |-> TRUE,  isfile |-> FALSE, readable |-> FALSE, names |-> <<>>],
      [found |-> TRUE,  isfile |-> TRUE,  readable |-> FALSE, names |-> <<>>],
      [found |-> TRUE,  isfile |-> TRUE,  readable |-> TRUE,  names |-> <<>>],
      [found |-> TRUE,  isfile |-> TRUE,  readable |-> TRUE,  names |-> <<"", "Acme">>],
      [found |-> TRUE,  isfile |-> TRUE,  readable |-> TRUE,  names |-> <<"Acme", "">>] }

(* ------------------------------ text order ---------------------------- *)

\* The texts that are compared, in code-point order (Python's sorted() on
\* str, SQLite's BINARY collation of ORDER BY).
TextOrder ==
    << "10", "2024-01-05", "2024-01-06", "9", "Acme", "MC", "UnknownStore", "Visa" >>

TextRank(s) == CHOOSE i \in 1..Len(TextOrder) : TextOrder[i] = s

TextLess(a, b) == TextRank(a) < TextRank(b)

(* -------------------------------- state ------------------------------- *)

VARIABLES
    argv2,          \* sys.argv[2], or NoArg
    pc,             \* position in main / process_prefix
    prefixes,       \* main: the list of prefixes to process
    idx,            \* main: position of the for loop in prefixes
    combined_rows,  \* main: combined_rows
    csv,            \* rows written to OUTPUT_CSV after the header
    log,            \* the lines printed about a skipped prefix and about
                    \* errors of the import, the query and the clean-up,
                    \* as <<message, prefix>>
    data_folder,    \* process_prefix: "found" / "None"
    jnl_path,       \* process_prefix: "found" / "None"
    store_name,     \* process_prefix: store_name
    str_dbf,        \* the str.dbf the store name is about to be read from
    db_file,        \* temp_jnl_<prefix>.db: "absent", "leftover" (holds the
                    \* table of an earlier run) or "current"
    jnl_data,       \* rows of table jnl_data in that file
    row_count,      \* import_jnl_to_sqlite: row_count
    imported,       \* process_prefix: imported (-1 before the call)
    rows,           \* process_prefix: rows
    units_read      \* units of the journals read so far in this run

vars == << argv2, pc, prefixes, idx, combined_rows, csv, log, data_folder,
           jnl_path, store_name, str_dbf, db_file, jnl_data,
           row_count, imported, rows, units_read >>

locals == << data_folder, jnl_path, store_name, str_dbf, db_file, jnl_data,
             row_count, imported, rows >>

prefix == prefixes[idx]

NoStrDbf == [found |-> FALSE, isfile |-> FALSE, readable |-> FALSE, names |-> <<>>]

Say(msg) == Append(log, << msg, prefix >>)

Range(seq) == { seq[i] : i \in 1..Len(seq) }

(* --------------------------- pure functions --------------------------- *)

\* Mutant of sorted: the names are left in the order os.listdir gave them.
sorted_asListed(names) == names

\* sorted(...) of main: ascending code-point order of the names.
RECURSIVE sorted(_)
sorted(names) ==
    IF names = <<>> THEN <<>>
    ELSE LET m == CHOOSE i \in 1..Len(names) :
                     \A j \in 1..Len(names) : ~TextLess(names[j], names[i])
             rest == [k \in 1..(Len(names) - 1) |->
                         IF k < m THEN names[k] ELSE names[k + 1]]
         IN  << names[m] >> \o sorted(rest)

\* Mutant of read_store_name_from_strdbf: without the break, the first
\* non-empty NAME of any record is returned.
read_store_name_anyRecord(f) ==
    IF ~f.isfile \/ ~f.readable THEN "UnknownStore"
    ELSE IF \E i \in 1..Len(f.names) : f.names[i] # ""
         THEN f.names[CHOOSE i \in 1..Len(f.names) :
                         /\ f.names[i] # ""
                         /\ \A j \in 1..(i - 1) : f.names[j] = ""]
         ELSE "UnknownStore"

\* read_store_name_from_strdbf(str_dbf_path), given what the path holds.
read_store_name_from_strdbf(f) ==
    IF ~f.isfile THEN "UnknownStore"
    ELSE IF ~f.readable THEN "UnknownStore"
    ELSE IF f.names # <<>> /\ f.names[1] # "" THEN f.names[1]
    ELSE "UnknownStore"

\* DROP TABLE IF EXISTS jnl_data; CREATE TABLE jnl_data (...).
OpenJnlTable(existing) == <<>>

\* row_num INTEGER PRIMARY KEY AUTOINCREMENT of the next inserted row.
NextRowNum(tbl) == IF tbl = <<>> THEN 1 ELSE tbl[Len(tbl)].row_num + 1

\* INSERT INTO jnl_data (LINE, PRICE, DATE, DESCRIPT) VALUES (?, ?, ?, ?).
InsertRow(tbl, r) ==
    Append(tbl, [row_num |-> NextRowNum(tbl), LINE |-> r.LINE, PRICE |-> r.PRICE,
                 DATE |-> r.DATE, DESCRIPT |-> r.DESCRIPT])

\* CAST(text AS REAL): the leading number of the text, 0 when it has none.
CastReal(t) ==
    CASE t = "10" -> 10
      [] t = "-2" -> -2
      [] t = "-5" -> -5
      [] t = "0"  -> 0
      [] OTHER    -> 0

\* Mutant of JoinB: any later "980" row joins, not only the next row.
JoinB_anyLater(tbl, a) == { b \in Range(tbl) : b.row_num > a.row_num /\ b.LINE = "980" }

\* INNER JOIN jnl_data b ON b.row_num = a.row_num + 1 AND b.LINE = '980'.
JoinB(tbl, a) == { b \in Range(tbl) : b.row_num = a.row_num + 1 /\ b.LINE = "980" }

\* Mutant of JoinC: the nearest earlier "941" row joins, not only the row before.
JoinC_nearestEarlier(tbl, a) ==
    { c \in Range(tbl) :
        /\ c.row_num < a.row_num
        /\ c.LINE = "941"
        /\ \A d \in Range(tbl) : d.row_num < a.row_num /\ d.LINE = "941"
                                    => d.row_num <= c.row_num }

\* INNER JOIN jnl_data c ON c.row_num = a.row_num - 1 AND c.LINE = '941'.
JoinC(tbl, a) == { c \in Range(tbl) : c.row_num = a.row_num - 1 /\ c.LINE = "941" }

\* (CAST(a.PRICE AS REAL) - CAST(c.PRICE AS REAL)) AS sale_amount.
SaleAmount(a, c) == CastReal(a.PRICE) - CastReal(c.PRICE)

\* The rows of the CTE "sales" (a.row_num keeps equal rows apart).
sales(tbl) ==
    UNION { { [a |-> a.row_num, date |-> a.DATE, Type |-> b.DESCRIPT,
               sale_amount |-> SaleAmount(a, c), sale_count |-> 1]
              : b \in JoinB(tbl, a), c \in JoinC(tbl, a) }
            : a \in { x \in Range(tbl) : x.LINE = "950" } }

\* SUM(column) over the rows of one group.
RECURSIVE SUM(_, _)
SUM(group, column) ==
    IF group = {} THEN 0
    ELSE LET x == CHOOSE y \in group : TRUE
         IN  x[column] + SUM(group \ {x}, column)

\* ORDER BY date, Type.
KeyLess(g, h) ==
    \/ TextLess(g[1], h[1])
    \/ g[1] = h[1] /\ TextLess(g[2], h[2])

RECURSIVE OrderBy(_)
OrderBy(groups) ==
    IF groups = {} THEN <<>>
    ELSE LET m == CHOOSE g \in groups : \A h \in groups : ~KeyLess(h, g)
         IN  << m >> \o OrderBy(groups \ {m})

\* generate_report_rows(prefix, store_name, sqlite_db) when the query runs.
generate_report_rows(p, store, tbl) ==
    LET s      == sales(tbl)
        groups == OrderBy({ << x.date, x.Type >> : x \in s })
        grp(g) == { x \in s : x.date = g[1] /\ x.Type = g[2] }
    IN  [i \in 1..Len(groups) |->
            [Astoreid    |-> p,
             Storename   |-> store,
             date        |-> groups[i][1],
             Type        |-> groups[i][2],
             sale_amount |-> SUM(grp(groups[i]), "sale_amount"),
             sale_count  |-> SUM(grp(groups[i]), "sale_count"),
             currency    |-> "USD"]]

(* ------------------------- bounds on the inputs ------------------------ *)

NTriples(tbl) ==
    Cardinality({ i \in 2..(Len(tbl) - 1) :
                    /\ tbl[i - 1].LINE = "941"
                    /\ tbl[i].LINE = "950"
                    /\ tbl[i + 1].LINE = "980" })

NPairs(tbl) ==
    Cardinality({ i \in 1..(Len(tbl) - 1) :
                    /\ tbl[i].LINE = "941"
                    /\ tbl[i + 1].LINE = "950"
                    /\ ~(i + 2 <= Len(tbl) /\ tbl[i + 2].LINE = "980") })

Units(tbl) == Len(tbl) - 2 * NTriples(tbl) - NPairs(tbl)

\* os.listdir(extracted_root) filtered by isdir: the folders, in any order.
Listings ==
    { names \in [1..Cardinality(Prefixes) -> Prefixes] :
        \A i, j \in 1..Len(names) : i # j => names[i] # names[j] }

(* -------------------------------- Init -------------------------------- *)

Init ==
    /\ argv2 \in ArgvInputs
    /\ pc = "start"
    /\ prefixes = <<>>
    /\ idx = 1
    /\ combined_rows = <<>>
    /\ csv = <<>>
    /\ log = <<>>
    /\ data_folder = "None"
    /\ jnl_path = "None"
    /\ store_name = ""
    /\ str_dbf = NoStrDbf
    /\ db_file = "absent"
    /\ jnl_data = <<>>
    /\ row_count = 0
    /\ imported = -1
    /\ rows = <<>>
    /\ units_read = 0

(* ------------------------------- main --------------------------------- *)

\* main, lines 184-209: the prefixes to process.
Main_Start ==
    /\ pc = "start"
    /\ \E listing \in Listings, listed \in BOOLEAN :
          IF argv2 # NoArg
          THEN /\ prefixes' = << argv2 >>
               /\ pc' = "loop"
          ELSE IF listed
          THEN /\ prefixes' = sorted(listing)
               /\ pc' = "loop"
          ELSE /\ prefixes' = prefixes
               /\ pc' = "exit1"
    /\ UNCHANGED << argv2, idx, combined_rows, csv, log, locals, units_read >>

\* main, lines 214-218: the rows process_prefix returned join combined_rows.
Main_Collect ==
    /\ pc = "returned"
    /\ combined_rows' = IF rows # <<>> THEN combined_rows \o rows ELSE combined_rows
    /\ log' = IF rows # <<>> THEN log ELSE Say("No report data for prefix")
    /\ idx' = idx + 1
    /\ pc' = "loop"
    /\ data_folder' = "None"
    /\ jnl_path' = "None"
    /\ store_name' = ""
    /\ str_dbf' = NoStrDbf
    /\ db_file' = "absent"
    /\ jnl_data' = <<>>
    /\ row_count' = 0
    /\ imported' = -1
    /\ rows' = <<>>
    /\ UNCHANGED << argv2, prefixes, csv, units_read >>

\* main, lines 220-240: the combined rows are written after the header.
Main_Write ==
    /\ pc = "loop"
    /\ idx > Len(prefixes)
    /\ \E written \in BOOLEAN :
          IF written
          THEN csv' = combined_rows /\ pc' = "done"
          ELSE csv' = csv /\ pc' = "exit1"
    /\ UNCHANGED << argv2, prefixes, idx, combined_rows, log, locals, units_read >>

(* --------------------------- process_prefix --------------------------- *)

main_state == << argv2, prefixes, idx, combined_rows, csv >>

run_state == << main_state, units_read >>

\* Lines 151-154: find_case_insensitive(parent_path, "data").
PP_FindData ==
    /\ pc = "loop"
    /\ idx <= Len(prefixes)
    /\ \E found \in BOOLEAN :
          IF found
          THEN /\ data_folder' = "found"
               /\ pc' = "find_jnl"
               /\ UNCHANGED << log, rows >>
          ELSE /\ data_folder' = "None"
               /\ log' = Say("Skipping prefix: no 'data' folder found")
               /\ rows' = <<>>
               /\ pc' = "returned"
    /\ UNCHANGED << run_state, jnl_path, store_name, str_dbf, db_file, jnl_data,
                    row_count, imported >>

\* Mutant of PP_FindJnl: a missing jnl.dbf raises and ends the run.
PP_FindJnl_raises ==
    /\ pc = "find_jnl"
    /\ \E found \in BOOLEAN :
          IF found
          THEN /\ jnl_path' = "found"
               /\ pc' = "find_str"
          ELSE /\ jnl_path' = "None"
               /\ pc' = "exit1"
    /\ UNCHANGED << run_state, log, rows, data_folder, store_name, str_dbf, db_file,
                    jnl_data, row_count, imported >>

\* Lines 157-160: find_case_insensitive(data_folder, "jnl.dbf").
PP_FindJnl ==
    /\ pc = "find_jnl"
    /\ \E found \in BOOLEAN :
          IF found
          THEN /\ jnl_path' = "found"
               /\ pc' = "find_str"
               /\ UNCHANGED << log, rows >>
          ELSE /\ jnl_path' = "None"
               /\ log' = Say("Skipping prefix: jnl.dbf not found")
               /\ rows' = <<>>
               /\ pc' = "returned"
    /\ UNCHANGED << run_state, data_folder, store_name, str_dbf, db_file, jnl_data,
                    row_count, imported >>

\* Line 161: find_case_insensitive(data_folder, "str.dbf").
PP_FindStr ==
    /\ pc = "find_str"
    /\ str_dbf' \in StrDbfInputs
    /\ pc' = "read_store"
    /\ UNCHANGED << run_state, log, data_folder, jnl_path, store_name, db_file,
                    jnl_data, row_count, imported, rows >>

\* Line 162 and read_store_name_from_strdbf, lines 15-32.
PP_ReadStore ==
    /\ pc = "read_store"
    /\ store_name' = IF str_dbf.found THEN read_store_name_from_strdbf(str_dbf)
                     ELSE "UnknownStore"
    /\ str_dbf' = NoStrDbf
    /\ pc' = "import"
    /\ UNCHANGED << run_state, log, data_folder, jnl_path, db_file, jnl_data,
                    row_count, imported, rows >>

\* import_jnl_to_sqlite, lines 52-59: isfile(jnl_dbf_path) and DBF(..., load=False).
\* Whether temp_jnl_<prefix>.db is there from an earlier run is fixed here.
PP_OpenDbf ==
    /\ pc = "import"
    /\ \E isfile \in BOOLEAN, opened \in BOOLEAN, tables \in SUBSET LeftoverTables :
          /\ Cardinality(tables) <= 1
          /\ db_file' = IF tables = {} THEN "absent" ELSE "leftover"
          /\ jnl_data' = IF tables = {} THEN <<>> ELSE CHOOSE t \in tables : TRUE
          /\ IF isfile /\ opened
             THEN pc' = "connect" /\ imported' = imported /\ log' = log
             ELSE /\ pc' = "imported"
                  /\ imported' = 0
                  /\ log' = IF isfile THEN Say("Error opening DBF file")
                            ELSE Say("Error: jnl.dbf not found")
    /\ UNCHANGED << run_state, data_folder, jnl_path, store_name, str_dbf,
                    row_count, rows >>

\* import_jnl_to_sqlite, lines 61-81: connect, PRAGMAs, DROP TABLE IF EXISTS,
\* CREATE TABLE; a failure of any of them is caught at line 95.
PP_Connect ==
    /\ pc = "connect"
    /\ \E connected \in BOOLEAN :
          IF connected
          THEN /\ db_file' = "current"
               /\ jnl_data' = OpenJnlTable(jnl_data)
               /\ row_count' = 0
               /\ pc' = "inserting"
               /\ imported' = imported
               /\ log' = log
          ELSE /\ UNCHANGED << db_file, jnl_data, row_count >>
               /\ imported' = 0
               /\ pc' = "imported"
               /\ log' = Say("Database error")
    /\ UNCHANGED << run_state, data_folder, jnl_path, store_name, str_dbf, rows >>

\* import_jnl_to_sqlite, lines 82-88: one record of the journal is inserted.
PP_InsertRecord ==
    /\ pc = "inserting"
    /\ \E record \in Records :
          /\ units_read + Units(InsertRow(jnl_data, record)) <= MaxUnits
          /\ jnl_data' = InsertRow(jnl_data, record)
    /\ row_count' = row_count + 1
    /\ UNCHANGED << run_state, pc, log, data_folder, jnl_path, store_name, str_dbf,
                    db_file, imported, rows >>

\* import_jnl_to_sqlite, lines 89-94: commit, close, return row_count.
PP_ImportCommit ==
    /\ pc = "inserting"
    /\ imported' = row_count
    /\ pc' = "imported"
    /\ units_read' = units_read + Units(jnl_data)
    /\ UNCHANGED << main_state, log, data_folder, jnl_path, store_name, str_dbf,
                    db_file, jnl_data, row_count, rows >>

\* Mutant of PP_ImportFail: the rows inserted before the failure are
\* committed and counted.
PP_ImportFail_returnsCount ==
    /\ pc = "inserting"
    /\ jnl_data' = jnl_data
    /\ imported' = row_count
    /\ pc' = "imported"
    /\ log' = Say("Database error")
    /\ units_read' = units_read + Units(jnl_data)
    /\ UNCHANGED << main_state, data_folder, jnl_path, store_name, str_dbf,
                    db_file, row_count, rows >>

\* import_jnl_to_sqlite, lines 95-97: reading a record, an insert or the commit
\* raised; the inserts were never committed and 0 is returned.
PP_ImportFail ==
    /\ pc = "inserting"
    /\ jnl_data' = <<>>
    /\ imported' = 0
    /\ pc' = "imported"
    /\ log' = Say("Database error")
    /\ units_read' = units_read + Units(jnl_data)
    /\ UNCHANGED << main_state, data_folder, jnl_path, store_name, str_dbf,
                    db_file, row_count, rows >>

\* process_prefix, lines 167-171: nothing imported.  The code has no handler
\* for a failure of this os.remove; the file is taken to be removed.
PP_SkipNoImport ==
    /\ pc = "imported"
    /\ imported = 0
    /\ log' = Say("Skipping prefix: no data imported")
    /\ db_file' = "absent"
    /\ jnl_data' = <<>>
    /\ rows' = <<>>
    /\ pc' = "returned"
    /\ UNCHANGED << run_state, data_folder, jnl_path, store_name, str_dbf,
                    row_count, imported >>

\* process_prefix, line 173, and generate_report_rows, lines 100-143.
PP_Generate ==
    /\ pc = "imported"
    /\ imported # 0
    /\ \E queried \in BOOLEAN :
          IF queried
          THEN /\ rows' = generate_report_rows(prefix, store_name, jnl_data)
               /\ log' = log
          ELSE /\ rows' = <<>>
               /\ log' = Say("Error generating report rows")
    /\ pc' = "cleanup"
    /\ UNCHANGED << run_state, data_folder, jnl_path, store_name, str_dbf, db_file,
                    jnl_data, row_count, imported >>

\* process_prefix, lines 175-181: the temporary database is removed.  No
\* connection is open any more; what a file that stays behind holds is read
\* by no later step of the run and is not tracked.
PP_Cleanup ==
    /\ pc = "cleanup"
    /\ \E removed \in BOOLEAN :
          IF db_file = "absent"
          THEN UNCHANGED << db_file, jnl_data, log >>
          ELSE IF removed
          THEN db_file' = "absent" /\ jnl_data' = <<>> /\ log' = log
          ELSE /\ db_file' = db_file
               /\ jnl_data' = <<>>
               /\ log' = Say("Error removing temporary database")
    /\ pc' = "returned"
    /\ UNCHANGED << run_state, data_folder, jnl_path, store_name, str_dbf,
                    row_count, imported, rows >>

(* ---------------------------- specification --------------------------- *)

Next ==
    \/ Main_Start
    \/ PP_FindData
    \/ PP_FindJnl
    \/ PP_FindStr
    \/ PP_ReadStore
    \/ PP_OpenDbf
    \/ PP_Connect
    \/ PP_InsertRecord
    \/ PP_ImportCommit
    \/ PP_ImportFail
    \/ PP_SkipNoImport
    \/ PP_Generate
    \/ PP_Cleanup
    \/ Main_Collect
    \/ Main_Write

Spec == Init /\ [][Next]_vars

\* The run started with one prefix on the command line (sys.argv[2]).
InitSingle == Init /\ argv2 # NoArg

SpecSingle == InitSingle /\ [][Next]_vars

(* ------------------------ notions of the claims ----------------------- *)

\* The journal as the claims see it: the entries in sequence order.
entry == jnl_data

LastLine == IF log = <<>> THEN << "", "" >> ELSE log[Len(log)]

\* generate_report_rows has returned the result of its query.
RowsKnown ==
    /\ pc = "cleanup"
    /\ LastLine # << "Error generating report rows", prefix >>

\* Indices i with entry[i] a "950" and entry[i+1] a "980".
Matches(e) == { i \in 1..(Len(e) - 1) : e[i].LINE = "950" /\ e[i + 1].LINE = "980" }

HasAdjustment(e, i) == i - 1 >= 1 /\ e[i - 1].LINE = "941"

EffectiveAmount(e, i) ==
    IF HasAdjustment(e, i) THEN CastReal(e[i].PRICE) - CastReal(e[i - 1].PRICE)
    ELSE CastReal(e[i].PRICE)

MatchKey(e, i) == << e[i].DATE, e[i + 1].DESCRIPT >>

MatchesOf(e, key) == { i \in Matches(e) : MatchKey(e, i) = key }

Keys(e) == { << e[i].DATE, e[j].DESCRIPT >> : i \in 1..Len(e), j \in 1..Len(e) }

RowsOf(rs, key) == { k \in 1..Len(rs) : << rs[k].date, rs[k].Type >> = key }

RECURSIVE SumEffective(_, _)
SumEffective(e, S) ==
    IF S = {} THEN 0
    ELSE LET i == CHOOSE j \in S : TRUE
         IN  EffectiveAmount(e, i) + SumEffective(e, S \ {i})

RECURSIVE CountIn(_, _)
CountIn(rs, K) ==
    IF K = {} THEN 0
    ELSE LET k == CHOOSE j \in K : TRUE
         IN  rs[k].sale_count + CountIn(rs, K \ {k})

Totals(rs) ==
    { << rs[k].date, rs[k].Type, rs[k].sale_amount, rs[k].sale_count >> : k \in 1..Len(rs) }

\* The table the import builds from the journal records in the given order.
RECURSIVE ImportAll(_)
ImportAll(records) ==
    IF records = <<>> THEN <<>>
    ELSE InsertRow(ImportAll(SubSeq(records, 1, Len(records) - 1)),
                   records[Len(records)])

\* The journal with position k holding the entry that was at order[k].
Reordered(e, order) == ImportAll([k \in 1..Len(e) |-> e[order[k]]])

PositionOf(order, i) == CHOOSE k \in DOMAIN order : order[k] = i

\* The reordering moves only entries outside the matched groups: every
\* matched 950/980 pair, with its preceding 941 when it has one, stays
\* contiguous and in order, and the groups keep their relative order.
KeepsGroups(e, order) ==
    /\ \A i \in Matches(e) :
          /\ PositionOf(order, i + 1) = PositionOf(order, i) + 1
          /\ HasAdjustment(e, i) => PositionOf(order, i - 1) = PositionOf(order, i) - 1
    /\ \A i, j \in Matches(e) : i < j => PositionOf(order, i) < PositionOf(order, j)

\* The entry at position i moved to position j, the others keeping their order.
Relocation(n, i, j) ==
    [k \in 1..n |->
        IF i <= j
        THEN (IF k < i \/ k > j THEN k ELSE IF k = j THEN i ELSE k + 1)
        ELSE (IF k < j \/ k > i THEN k ELSE IF k = j THEN i ELSE k - 1)]

Orders(n) ==
    IF n <= MaxPermLen THEN Permutations(1..n)
    ELSE { Relocation(n, i, j) : i \in 1..n, j \in 1..n }

\* Rows in ascending prefix order, and in strictly ascending (date, Type)
\* order within one prefix.
OrderedReport(rs) ==
    \A i, j \in 1..Len(rs) :
        i < j => /\ ~TextLess(rs[j].Astoreid, rs[i].Astoreid)
                 /\ rs[i].Astoreid = rs[j].Astoreid
                       => KeyLess(<< rs[i].date, rs[i].Type >>, << rs[j].date, rs[j].Type >>)

Skipped(p) ==
    \E k \in 1..Len(log) :
        /\ log[k][2] = p
        /\ log[k][1] \in { "Skipping prefix: no 'data' folder found",
                           "Skipping prefix: jnl.dbf not found",
                           "Skipping prefix: no data imported" }

\* process_prefix has returned for a partition whose journal is missing or
\* could not be opened or read (or holds no record).
JournalFailed ==
    /\ pc = "returned"
    /\ data_folder = "None" \/ jnl_path = "None" \/ imported = 0

\* str.dbf is absent, unreadable, or its first record has no non-empty NAME.
NoStoreName(f) ==
    \/ ~f.found
    \/ ~f.isfile
    \/ ~f.readable
    \/ f.names = <<>>
    \/ f.names[1] = ""

WithoutStore(rs) ==
    [k \in 1..Len(rs) |->
        << rs[k].Astoreid, rs[k].date, rs[k].Type, rs[k].sale_amount,
           rs[k].sale_count, rs[k].currency >>]

\* The read of the journal (or an insert, or the commit) failed in this import.
ImportRaised == \E k \in 1..Len(log) : log[k] = << "Database error", prefix >>

(* ------------------------------- claims ------------------------------- *)

\* C1: every index i with entry[i] a "950" and entry[i+1] a "980" yields
\* exactly one match, keyed (entry[i].date, entry[i+1].description), whether
\* or not a "941" precedes it: each key's count is the number of such i.
C1_EveryPairYieldsOneMatch ==
    RowsKnown =>
        \A key \in Keys(entry) :
            CountIn(rows, RowsOf(rows, key)) = Cardinality(MatchesOf(entry, key))

\* C2: a "950" entry that is not immediately followed by a "980" entry adds
\* to no match and no bucket: a row counts at least one and at most the
\* "950" entries of its key that a "980" follows at the next index, and the
\* rows are those of the journal with every other "950" entry recoded.
Recoded(e) ==
    [i \in 1..Len(e) |->
        IF e[i].LINE = "950" /\ i \notin Matches(e)
        THEN [e[i] EXCEPT !.LINE = "100"] ELSE e[i]]

C2_NoMatchWithoutAdjacent980 ==
    RowsKnown =>
        /\ \A k \in 1..Len(rows) :
              /\ rows[k].sale_count >= 1
              /\ rows[k].sale_count
                    <= Cardinality(MatchesOf(entry, << rows[k].date, rows[k].Type >>))
        /\ rows = generate_report_rows(prefix, store_name, Recoded(entry))

\* A "950" with an entry between it and the next "980" (and a "941" before
\* it) was imported and queried.
C2_Witness ==
    /\ RowsKnown
    /\ \E i \in 2..(Len(entry) - 2) :
          /\ entry[i - 1].LINE = "941"
          /\ entry[i].LINE = "950"
          /\ entry[i + 1].LINE # "980"
          /\ entry[i + 2].LINE = "980"

\* C3: the amount a match adds to its bucket is raw_amount - adjustment when
\* a "941" entry immediately precedes the "950", and raw_amount otherwise:
\* a match that is alone in its bucket has a row with that amount.
C3_AmountIsEffectiveAmount ==
    RowsKnown =>
        \A i \in Matches(entry) :
            MatchesOf(entry, MatchKey(entry, i)) = {i}
                => \E k \in RowsOf(rows, MatchKey(entry, i)) :
                       rows[k].sale_amount = EffectiveAmount(entry, i)

\* C4: a match with a negative effective amount adds nothing to the sale
\* totals of its bucket: a row's sale_amount and sale_count are the sum and
\* the number of the non-negative effective amounts of its key.
C4_NegativeNeverInSaleTotals ==
    RowsKnown =>
        \A k \in 1..Len(rows) :
            LET sale == { i \in MatchesOf(entry, << rows[k].date, rows[k].Type >>) :
                            EffectiveAmount(entry, i) >= 0 }
            IN  /\ rows[k].sale_amount = SumEffective(entry, sale)
                /\ rows[k].sale_count = Cardinality(sale)

\* C5: exactly one row per (date, type_label) that has a match and none for
\* another pair, with the sum of the effective amounts and the number of the
\* matches of the key, in strictly ascending (date, type_label) order; no
\* match, no row.
C5_OneRowPerMatchedKey ==
    RowsKnown =>
        /\ \A key \in Keys(entry) :
              /\ Cardinality(RowsOf(rows, key))
                    = (IF MatchesOf(entry, key) = {} THEN 0 ELSE 1)
              /\ \A k \in RowsOf(rows, key) :
                    /\ rows[k].sale_amount = SumEffective(entry, MatchesOf(entry, key))
                    /\ rows[k].sale_count = Cardinality(MatchesOf(entry, key))
        /\ \A k \in 1..Len(rows) : << rows[k].date, rows[k].Type >> \in Keys(entry)
        /\ \A k \in 1..(Len(rows) - 1) :
              KeyLess(<< rows[k].date, rows[k].Type >>,
                      << rows[k + 1].date, rows[k + 1].Type >>)

\* C6 as stated: any reordering of the entries outside the matched groups,
\* the groups staying contiguous and in order, leaves every bucket's amount
\* and count unchanged.
C6_AnyReorderingKeepsTotals ==
    RowsKnown =>
        \A order \in Orders(Len(entry)) :
            KeepsGroups(entry, order)
                => Totals(generate_report_rows(prefix, store_name,
                                               Reordered(entry, order)))
                      = Totals(rows)

\* C6 as amended: such a reordering leaves every bucket's amount and count
\* unchanged when it brings no other "941", "950" and "980" entries together
\* into a new 941/950/980 triple.
C6_ReorderingWithoutNewTriple ==
    RowsKnown =>
        \A order \in Orders(Len(entry)) :
            /\ KeepsGroups(entry, order)
            /\ NTriples(Reordered(entry, order)) = NTriples(entry)
            => Totals(generate_report_rows(prefix, store_name,
                                           Reordered(entry, order)))
                  = Totals(rows)

\* A journal with a matched triple and two entries outside it, which a
\* reordering can move, was imported and queried.
C6_Witness ==
    /\ RowsKnown
    /\ rows # <<>>
    /\ Len(entry) = 5
    /\ \E order \in Orders(Len(entry)) :
          /\ order # [k \in 1..Len(entry) |-> k]
          /\ KeepsGroups(entry, order)
          /\ NTriples(Reordered(entry, order)) = NTriples(entry)
          /\ Reordered(entry, order) # entry

\* C7: the report is the concatenation of the partitions' rows in ascending
\* order of the prefix: rows of a smaller prefix come first, the rows a
\* partition returns all carry its prefix and follow those of the earlier
\* partitions, the (date, type_label) order inside a partition is kept, and
\* the file holds the combined rows.
C7_ReportConcatenatesInPrefixOrder ==
    /\ OrderedReport(combined_rows)
    /\ pc = "returned" => OrderedReport(combined_rows \o rows)
    /\ pc = "returned" => \A k \in 1..Len(rows) : rows[k].Astoreid = prefix
    /\ pc = "done" => csv = combined_rows

\* A report with two rows of one partition and a row of another is written.
C7_Witness ==
    /\ pc = "done"
    /\ \E i, j, k \in 1..Len(csv) :
          /\ i < j
          /\ csv[i].Astoreid = csv[j].Astoreid
          /\ csv[k].Astoreid # csv[i].Astoreid

\* C8: a partition whose journal is missing or unreadable is skipped and
\* recorded (a "Skipping prefix" line names it), no step of process_prefix
\* ends the run, the run goes on to the next partition, and the combined
\* rows are what the other partitions returned, in order.
C8_FailedPartitionStep ==
    /\ JournalFailed => /\ rows = <<>>
                        /\ Skipped(prefix)
                        /\ combined_rows' = combined_rows
    /\ pc = "returned" => /\ pc' = "loop"
                          /\ idx' = idx + 1
                          /\ combined_rows' = combined_rows \o rows
    /\ pc # "start" /\ ~(pc = "loop" /\ idx > Len(prefixes)) => pc' # "exit1"

C9_ReadStoreStep ==
    pc = "read_store" =>
        /\ pc' = "import"
        /\ NoStoreName(str_dbf) => store_name' = "UnknownStore"

C9_RowsApartFromStore ==
    RowsKnown =>
        /\ \A k \in 1..Len(rows) : rows[k].Storename = store_name
        /\ WithoutStore(rows)
              = WithoutStore(generate_report_rows(prefix, "Acme", jnl_data))

C9_MissingStoreNeverSuppresses ==
    /\ []C9_RowsApartFromStore
    /\ [][C9_ReadStoreStep]_vars

\* A partition without a store name has produced rows.
C9_Witness ==
    /\ RowsKnown
    /\ store_name = "UnknownStore"
    /\ rows # <<>>

\* C10, the parts that hold: after a failed read the import reports 0 and no
\* row is returned; the table is empty when the first record is inserted.
C10_AllOrNothing ==
    /\ pc \in { "imported", "cleanup", "returned" } /\ ImportRaised
          => imported = 0 /\ rows = <<>>
    /\ pc = "inserting"
          => /\ Len(jnl_data) = row_count
             /\ \A k \in 1..Len(jnl_data) : jnl_data[k].row_num = k
    /\ pc \in { "cleanup", "returned" } /\ rows # <<>> => imported = row_count

\* C10 as stated: moreover, on every return of process_prefix that follows
\* the import the temporary database is removed.
C10_DatabaseAlwaysRemoved ==
    /\ C10_AllOrNothing
    /\ pc = "returned" /\ imported >= 0 => db_file = "absent"

\* C10 as amended: the temporary database stays only when os.remove raised
\* after the report was generated, which is printed.
C10_DatabaseRemovedUnlessRemoveFails ==
    /\ C10_AllOrNothing
    /\ pc = "returned" /\ imported >= 0 /\ db_file # "absent"
          => /\ imported > 0
             /\ LastLine = << "Error removing temporary database", prefix >>

\* The read failed after a record was inserted and process_prefix returned.
C10_Witness ==
    /\ pc = "returned"
    /\ ImportRaised
    /\ row_count > 0
    /\ db_file = "absent"

====
